---- MODULE Spec2Model ----
(***************************************************************************)
(* Model of src/fpl_optimizer.py: the metrics engine (calculate_xp), the   *)
(* squad solver (solve_squad) and the part of main that drives them.       *)
(*                                                                         *)
(* Units.  The program works on decimals with one fractional digit; the    *)
(* model keeps them as integers so that sums are exact:                    *)
(*   now_cost, budget          tenths of a million (5.0 -> 50, 1.0 -> 10)  *)
(*   form, points_per_game,                                                *)
(*   influence                 tenths (the API gives one decimal)          *)
(*   final_xp                  1/700 points                                *)
(*   objective                 1/14000 points                              *)
(***************************************************************************)
EXTENDS Integers, Sequences, FiniteSets

VARIABLES
    df,           \* the roster main holds: get_live_data(), then calculate_xp
    budget,       \* sidebar: bank budget
    locked_ids,   \* sidebar: the ids of the locked players
    force_spend,  \* sidebar: "Force Max Budget Usage"
    status,       \* pulp.LpStatus[status] of the last solve
    results,      \* what solve_squad returned
    page          \* what main shows: "landing", "failed" or "squad"

vars == <<df, budget, locked_ids, force_spend, status, results, page>>

\* ------------------------------------------------------------------ bounds

\* The sidebar lets the user lock any player; the model lets the user lock
\* the players in Lockable, at most MaxLocked of them at a time.
MaxLocked == 3

\* calculate_xp is exercised on form and points_per_game of
\* -MaxStat .. MaxStat tenths.
MaxStat == 2

\* ------------------------------------------------------------------- data

\* One roster snapshot as get_live_data returns it (after cleaning): 16
\* players of 8 clubs.  Player 15 is injured and expensive (in the pool
\* only when locked), player 16 is injured and at the cheap-fodder price,
\* player 9 is at the availability threshold.  Players 9 and 13 have the
\* same final_xp and cost, so a solve can have two optimal assignments.
Row(p, t, c, ch, f, ppg, inf) ==
    [pos_name |-> p, team_name |-> t, now_cost |-> c,
     chance_of_playing_next_round |-> ch,
     form |-> f, points_per_game |-> ppg, influence |-> inf]

elements ==
    << Row("GK",  "ARS",  50, 100, 45, 42, 250),
       Row("GK",  "BOU",  45, 100, 30, 35, 200),
       Row("DEF", "ARS",  55, 100, 50, 48, 300),
       Row("DEF", "BOU",  40, 100, 30, 30, 150),
       Row("DEF", "CHE",  65,  75, 30, 30, 149),
       Row("DEF", "CHE",  45, 100, 40, 38, 220),
       Row("MID", "EVE",  50, 100, 42, 40, 100),
       Row("MID", "FUL",  85, 100, 60, 55, 400),
       Row("MID", "FUL",  55,  50, 40, 41, 120),
       Row("MID", "LIV", 105, 100, 80, 75, 500),
       Row("MID", "LIV",  55, 100, 48, 45, 260),
       Row("FWD", "MCI", 120, 100, 90, 85, 450),
       Row("FWD", "MCI",  55, 100, 40, 41, 150),
       Row("FWD", "NEW",  60, 100, 55, 50, 300),
       Row("MID", "ARS", 100,  25, 70, 68, 480),
       Row("DEF", "NEW",  50,   0,  0, 10,  20) >>

\* df.id: the id of a player is its index in the roster.

\* The players the model's user may lock, and the budgets the user may set
\* (st.number_input: 80.0 .. 120.0, default 100.0).
Lockable == {1, 2, 3, 15, 16}
Budgets == {900, 940, 1000}

\* The rows calculate_xp is exercised on.
Positions == {"GK", "DEF", "MID", "FWD"}
Stats == (0 - MaxStat) .. MaxStat
Influences == {0 - 10, 0, 140, 280, 290, 500}

\* ---------------------------------------------------------- metrics engine

Min(a, b) == IF a <= b THEN a ELSE b

\* base_xp = form * 0.6 + points_per_game * 0.4, in 1/100 points.
base_xp(row) == 6 * row.form + 4 * row.points_per_game

\* Mutant of get_defcon: the MID/FWD test is missing.
get_defconEveryone(row) == Min(280, row.influence)

\* get_defcon: 0.0 for MID/FWD, else min(0.8, influence / 35.0) * 2.0;
\* in 1/175 points: min(0.8, I/350) * 2 * 175 = min(280, I).
get_defcon(row) ==
    IF row.pos_name \in {"MID", "FWD"} THEN 0
    ELSE Min(280, row.influence)

\* final_xp = (base_xp * 1.0 + defcon_xp * 0.4) * 5, in 1/700 points:
\* 700 * (B/100 + 0.4 * D/175) * 5 = 35 * B + 8 * D.
final_xp(row) == 35 * base_xp(row) + 8 * get_defcon(row)

\* One row with the three columns calculate_xp adds.
WithXp(row) ==
    [pos_name |-> row.pos_name, team_name |-> row.team_name,
     now_cost |-> row.now_cost,
     chance_of_playing_next_round |-> row.chance_of_playing_next_round,
     form |-> row.form, points_per_game |-> row.points_per_game,
     influence |-> row.influence,
     base_xp |-> base_xp(row), defcon_xp |-> get_defcon(row),
     final_xp |-> final_xp(row)]

\* calculate_xp(df): row by row, as df.apply(..., axis=1) does.
RECURSIVE ApplyRows(_, _)
ApplyRows(d, n) ==
    IF n = 0 THEN << >> ELSE Append(ApplyRows(d, n - 1), WithXp(d[n]))

calculate_xp(d) == ApplyRows(d, Len(d))

\* ------------------------------------------------------------- the solver

\* Mutant of InPool: the locked players are not added.
InPoolNotLocked(d, locked, i) ==
    \/ d[i].chance_of_playing_next_round >= 50
    \/ d[i].now_cost <= 50

\* Pool: available, or cheap fodder (<= 5.0m), or locked.
InPool(d, locked, i) ==
    \/ d[i].chance_of_playing_next_round >= 50
    \/ d[i].now_cost <= 50
    \/ i \in locked

Pool(d, locked) == {i \in DOMAIN d : InPool(d, locked, i)}

\* Mutant of valid_formations: a 2-5-3 among the formations.
valid_formationsWith253 ==
    { <<3, 4, 3>>, <<3, 5, 2>>, <<4, 3, 3>>, <<4, 4, 2>>, <<2, 5, 3>>,
      <<4, 5, 1>>, <<5, 3, 2>>, <<5, 2, 3>>, <<5, 4, 1>> }

valid_formations ==
    { <<3, 4, 3>>, <<3, 5, 2>>, <<4, 3, 3>>, <<4, 4, 2>>,
      <<4, 5, 1>>, <<5, 3, 2>>, <<5, 2, 3>>, <<5, 4, 1>> }

\* The mappings pos and team of a player, and the columns the mappings xp
\* and cost are read from.
pos(row) == row.pos_name
team(row) == row.team_name
xp == "final_xp"
cost == "now_cost"

\* pulp.lpSum of a column over the players of T (the ids are 1 .. Len(d)).
RECURSIVE SumTo(_, _, _, _)
SumTo(d, col, T, n) ==
    IF n = 0 THEN 0
    ELSE (IF n \in T THEN d[n][col] ELSE 0) + SumTo(d, col, T, n - 1)

lpSum(d, col, T) == SumTo(d, col, T, Len(d))

\* The number of players of T at position p.
Count(d, T, p) == Cardinality({i \in T : pos(d[i]) = p})

\* An assignment gives the players whose start variable is 1 (S) and the
\* players whose bench variable is 1 (B).

\* The projected-value part of the objective, xp * s + xp * 0.1 * b, and
\* the objective, which adds cost * 0.005 * s; both in 1/14000 points.
Value(d, S, B) == 20 * lpSum(d, xp, S) + 2 * lpSum(d, xp, B)

Objective(d, S, B) == Value(d, S, B) + 7 * lpSum(d, cost, S)

\* Mutant of LockedPlayers: the membership test is inverted, so no locked
\* player of the pool is constrained.
LockedPlayersInverted(players, locked, S) ==
    \A pid \in locked : pid \notin players => pid \in S

\* 1. Locked players must be in the starting XI.
LockedPlayers(players, locked, S) ==
    \A pid \in locked : pid \in players => pid \in S

\* 2. Budget.
total_cost(d, S, B) == lpSum(d, cost, S) + lpSum(d, cost, B)

\* Mutant of Budget: force_spend is ignored.
BudgetNoFloor(d, bud, force, S, B) == total_cost(d, S, B) <= bud

Budget(d, bud, force, S, B) ==
    LET total == total_cost(d, S, B)
    IN /\ total <= bud
       /\ force => total >= bud - 10

\* 3. Physics: s[i] + b[i] <= 1, so with the start variables of S set the
\* bench variable of a player may be 1 only outside S.
Physics(players, S) == players \ S

\* 4. Structure.
StructureStart(S) == Cardinality(S) = 11

\* Mutant of StructureBench: a bench of 3.
StructureBenchOfThree(d, B) ==
    /\ Cardinality(B) = 3
    /\ Count(d, B, "GK") = 1

StructureBench(d, B) ==
    /\ Cardinality(B) = 4
    /\ Count(d, B, "GK") = 1

\* 5. Formation logic: one formation variable is 1 and the starters of each
\* outfield position number what that formation says; one GK starts.  Every
\* player of the roster is at one of the four positions, so the settings of
\* the start variables that satisfy these five constraints are the unions
\* of one GK and, for some formation f, f[1] DEF, f[2] MID and f[3] FWD.
Pick(d, players, p, k) ==
    {X \in SUBSET {i \in players : pos(d[i]) = p} : Cardinality(X) = k}

FormationLogic(d, players) ==
    UNION { { g \cup x \cup m \cup w :
                g \in Pick(d, players, "GK", 1),
                x \in Pick(d, players, "DEF", f[1]),
                m \in Pick(d, players, "MID", f[2]),
                w \in Pick(d, players, "FWD", f[3]) }
            : f \in valid_formations }

\* Mutant of limit: one locked player is enough to raise the limit.
limitAnyLocked(d, players, locked, t) ==
    IF Cardinality({pid \in locked : pid \in players /\ team(d[pid]) = t}) > 0
    THEN 3 ELSE 2

\* 6. Team limit: 2 per club, 3 for a club with more than 2 locked players.
limit(d, players, locked, t) ==
    IF Cardinality({pid \in locked : pid \in players /\ team(d[pid]) = t}) > 2
    THEN 3 ELSE 2

TeamLimit(d, players, locked, S, B) ==
    \A t \in {team(d[i]) : i \in players} :
        Cardinality({i \in S : team(d[i]) = t})
        + Cardinality({i \in B : team(d[i]) = t})
            <= limit(d, players, locked, t)

\* The assignments that satisfy every constraint.  The constraints on the
\* start variables alone are decided first; the bench variables then range
\* over what Physics leaves.
Feasible(d, players, bud, force, locked) ==
    LET starts == {S \in FormationLogic(d, players) :
                      /\ StructureStart(S)
                      /\ LockedPlayers(players, locked, S)}
    IN UNION { { [s |-> S, b |-> B] :
                   B \in {B \in SUBSET Physics(players, S) :
                            /\ StructureBench(d, B)
                            /\ Budget(d, bud, force, S, B)
                            /\ TeamLimit(d, players, locked, S, B)} }
               : S \in starts }

\* The optimal assignments: the feasible ones of greatest objective (of
\* least negated objective).
Optimal(d, F) ==
    LET scored == {<<0 - Objective(d, a.s, a.b), a>> : a \in F}
        neg == {x[1] : x \in scored}
        best == CHOOSE m \in neg : \A w \in neg : m <= w
    IN {x[2] : x \in {y \in scored : y[1] = best}}

\* The status of a solve that failed, neither Optimal nor Infeasible.
\* (pulp.LpStatus has a second one, "Undefined", that solve_squad treats
\* the same way.)
FailureStatuses == {"Not Solved"}

\* What prob.solve can answer: Optimal with an optimal assignment,
\* Infeasible when there is none, or, when the solver fails, a status that is
\* neither (the variables then have no values).
solve(d, players, bud, force, locked) ==
    LET F == Feasible(d, players, bud, force, locked)
    IN (IF F = {} THEN { [status |-> "Infeasible", s |-> {}, b |-> {}] }
        ELSE { [status |-> "Optimal", s |-> a.s, b |-> a.b] : a \in Optimal(d, F) })
       \cup { [status |-> st, s |-> {}, b |-> {}] : st \in FailureStatuses }

\* The value solve_squad returns: None, or a list of id/role records.
None == [none |-> TRUE, squad |-> << >>]
List(sq) == [none |-> FALSE, squad |-> sq]

\* Extract: the players in pool order, a Starter when s > 0.5, else a Bench
\* when b > 0.5.
RECURSIVE Extract(_, _, _, _)
Extract(n, players, S, B) ==
    IF n = 0 THEN << >>
    ELSE Extract(n - 1, players, S, B) \o
         (IF n \notin players THEN << >>
          ELSE IF n \in S THEN << [id |-> n, role |-> "Starter"] >>
          ELSE IF n \in B THEN << [id |-> n, role |-> "Bench"] >>
          ELSE << >>)

\* Mutant of Return: the status is not looked at.
ReturnUnchecked(d, players, o) == List(Extract(Len(d), players, o.s, o.b))

\* The end of solve_squad: None unless the status is Optimal.
Return(d, players, o) ==
    IF o.status # "Optimal" THEN None
    ELSE List(Extract(Len(d), players, o.s, o.b))

\* solve_squad(df, budget, force_spend, locked_ids): the possible pairs of
\* solver status and returned value.
solve_squad(d, bud, force, locked) ==
    LET players == Pool(d, locked)
    IN { [status |-> o.status, results |-> Return(d, players, o)]
         : o \in solve(d, players, bud, force, locked) }

\* ---------------------------------------------------------------- main

\* get_live_data(): the roster snapshot.
get_live_data == elements

Init ==
    /\ df = get_live_data
    /\ budget = 1000
    /\ locked_ids = {}
    /\ force_spend = FALSE
    /\ status = "Not Run"
    /\ results = None
    /\ page = "landing"

\* A rerun of main without a click: the landing page.
Landing ==
    /\ df' = get_live_data
    /\ status' = "Not Run"
    /\ results' = None
    /\ page' = "landing"

SetBudget ==
    /\ \E b \in Budgets \ {budget} : budget' = b
    /\ Landing
    /\ UNCHANGED <<locked_ids, force_spend>>

LockPlayer ==
    /\ Cardinality(locked_ids) < MaxLocked
    /\ \E x \in Lockable \ locked_ids : locked_ids' = locked_ids \cup {x}
    /\ Landing
    /\ UNCHANGED <<budget, force_spend>>

UnlockPlayer ==
    /\ \E x \in locked_ids : locked_ids' = locked_ids \ {x}
    /\ Landing
    /\ UNCHANGED <<budget, force_spend>>

ToggleForceSpend ==
    /\ force_spend' = ~force_spend
    /\ Landing
    /\ UNCHANGED <<budget, locked_ids>>

\* "not results": None and the empty list are both false.
Not(r) == r.none \/ r.squad = << >>

\* A rerun of main with the button clicked.
Generate ==
    /\ LET scored == calculate_xp(get_live_data)
       IN /\ df' = scored
          /\ \E r \in solve_squad(scored, budget, force_spend, locked_ids) :
                /\ status' = r.status
                /\ results' = r.results
                /\ page' = IF Not(r.results) THEN "failed" ELSE "squad"
    /\ UNCHANGED <<budget, locked_ids, force_spend>>

Next == SetBudget \/ LockPlayer \/ UnlockPlayer \/ ToggleForceSpend \/ Generate

Spec == Init /\ [][Next]_vars

\* ------------------------------------------------- calculate_xp on its own

\* calculate_xp applied to a roster of one row whose numeric attributes are
\* drawn from Stats and Influences.
HasXp(d) == \A i \in DOMAIN d : "final_xp" \in DOMAIN d[i]

InitXp ==
    /\ df \in { << Row(p, "ARS", 50, 100, f, g, inf) >> :
                  p \in Positions, f \in Stats, g \in Stats, inf \in Influences }
    /\ budget = 1000
    /\ locked_ids = {}
    /\ force_spend = FALSE
    /\ status = "Not Run"
    /\ results = None
    /\ page = "landing"

CalculateXp ==
    /\ ~HasXp(df)
    /\ df' = calculate_xp(df)
    /\ UNCHANGED <<budget, locked_ids, force_spend, status, results, page>>

SpecXp == InitXp /\ [][CalculateXp]_vars

\* ------------------------------------------------------------ properties

\* The ids solve_squad returned with a role, and the clubs of the roster.
WithRole(r, role) ==
    {r.squad[k].id : k \in {j \in DOMAIN r.squad : r.squad[j].role = role}}

Starters == WithRole(results, "Starter")
Bench == WithRole(results, "Bench")
Returned == ~results.none
Clubs == {team(df[i]) : i \in DOMAIN df}
FromClub(T, t) == Cardinality({i \in T : team(df[i]) = t})
At(T, p) == Cardinality({i \in T : pos(df[i]) = p})
Cost(T) == lpSum(df, cost, T)

\* C1: when solve_squad returns a squad, every locked id is in it as a
\* Starter, never as Bench and never absent.
C1_LockedAreStarters ==
    Returned => \A pid \in locked_ids : pid \in Starters /\ pid \notin Bench

\* C1 witness: a squad returned with three locks, one of them the player
\* who is in the pool only because he is locked.
C1_Witness ==
    Returned /\ 15 \in locked_ids /\ Cardinality(locked_ids) = 3

\* C2: in a returned squad no club has more than 2 players, unless at least
\* 3 locked ids are of that club, and then that club has at most 3.
C2_TeamCap ==
    Returned =>
        \A t \in Clubs :
            FromClub(Starters \cup Bench, t)
                <= IF FromClub(locked_ids, t) >= 3 THEN 3 ELSE 2

\* C2 witness: a returned squad with 3 players of one club, all 3 locked.
C2_Witness ==
    Returned /\ \E t \in Clubs :
        FromClub(Starters \cup Bench, t) = 3 /\ FromClub(locked_ids, t) = 3

\* C3: the cost of a returned squad is at most budget, and at least
\* budget - 1.0 when force_spend is set.
C3_Budget ==
    Returned =>
        /\ Cost(Starters) + Cost(Bench) <= budget
        /\ force_spend => Cost(Starters) + Cost(Bench) >= budget - 10

\* C3 witness: force_spend with budget 100.0 and a squad that costs between
\* 99.0 and 100.0.
C3_Witness ==
    /\ Returned /\ force_spend /\ budget = 1000
    /\ Cost(Starters) + Cost(Bench) \in 990 .. 1000

\* C4: a returned squad lists 15 distinct ids, each a Starter or a Bench,
\* 11 Starters and 4 Bench, no id with both roles, one GK on the bench.
C4_Structure ==
    Returned =>
        /\ Len(results.squad) = 15
        /\ Cardinality({results.squad[k].id : k \in DOMAIN results.squad}) = 15
        /\ \A k \in DOMAIN results.squad :
              results.squad[k].role \in {"Starter", "Bench"}
        /\ Cardinality(Starters) = 11
        /\ Cardinality(Bench) = 4
        /\ Starters \cap Bench = {}
        /\ At(Bench, "GK") = 1

\* C4 witness: a squad picked from a pool of 16.
C4_Witness ==
    Returned /\ Cardinality(Pool(df, locked_ids)) = 16

\* C5: the Starters of a returned squad have one GK and DEF, MID and FWD
\* counts that are one of the eight formations.
C5_Formation ==
    Returned =>
        /\ At(Starters, "GK") = 1
        /\ << At(Starters, "DEF"), At(Starters, "MID"), At(Starters, "FWD") >>
              \in { <<3, 4, 3>>, <<3, 5, 2>>, <<4, 3, 3>>, <<4, 4, 2>>,
                    <<4, 5, 1>>, <<5, 3, 2>>, <<5, 2, 3>>, <<5, 4, 1>> }

\* C5 witness: a returned squad that plays 3-5-2.
C5_Witness ==
    /\ Returned
    /\ << At(Starters, "DEF"), At(Starters, "MID"), At(Starters, "FWD") >>
          = <<3, 5, 2>>

\* The assignments that satisfy the constraints of the solve last run.
FeasibleNow ==
    Feasible(df, Pool(df, locked_ids), budget, force_spend, locked_ids)

\* C6: when no assignment satisfies the constraints solve_squad returns
\* None (a list is returned only when one does), and a returned list has 15
\* entries, never none or fewer.
C6_InfeasibleIsNone ==
    page # "landing" =>
        /\ results.none \/ FeasibleNow # {}
        /\ Returned => Len(results.squad) = 15
        /\ page = "failed" <=> results.none

\* C6 witness: the solver answered Infeasible for a problem that has no
\* feasible assignment, and main shows the failure.
C6_Witness ==
    /\ status = "Infeasible" /\ results = None /\ page = "failed"
    /\ FeasibleNow = {}

\* C7: a solver failure (a status that is neither Optimal nor Infeasible)
\* is returned as something other than what infeasibility returns, None.
C7_FailureIsDistinct ==
    status \in FailureStatuses => results # None

\* C8, as claimed: final_xp is never negative; MID and FWD have no defensive
\* bonus, so their final_xp is (0.6 form + 0.4 points_per_game) * 5; GK and
\* DEF have the bonus min(0.8, influence / 35.0) * 2.0.
C8_Rest(row) ==
    /\ row.pos_name \in {"MID", "FWD"} =>
          /\ row.defcon_xp = 0
          /\ row.final_xp = 35 * (6 * row.form + 4 * row.points_per_game)
    /\ row.pos_name \in {"GK", "DEF"} =>
          /\ row.defcon_xp = Min(280, row.influence)
          /\ row.final_xp = 35 * (6 * row.form + 4 * row.points_per_game)
                            + 8 * row.defcon_xp

C9_PoolMonotonic ==
    \A x \in DOMAIN df :
        /\ Pool(df, locked_ids) \subseteq Pool(df, locked_ids \cup {x})
        /\ x \in Pool(df, locked_ids \cup {x})

\* C9 witness: a locked player who is in the pool and would not be in it
\* without the lock.
C9_Witness ==
    \E x \in locked_ids :
        x \in Pool(df, locked_ids) /\ x \notin Pool(df, locked_ids \ {x})

\* C10: the returned squad has the greatest projected-value score (xp of the
\* Starters plus 0.1 xp of the Bench) of all feasible squads.
C10_ValueIsMaximal ==
    Returned =>
        \A a \in FeasibleNow :
            Value(df, a.s, a.b) <= Value(df, Starters, Bench)

====
